---- MODULE Spec2Model ----
(***************************************************************************)
(* Model of agentropic-messaging: the Router registry (a HashMap from      *)
(* AgentId to the sending half of an unbounded mpsc channel, behind an     *)
(* RwLock), the receiving halves handed out by register, and the           *)
(* RequestReply helper.                                                    *)
(*                                                                         *)
(* Every Router method runs its whole body while it holds the registry     *)
(* lock (write for register and unregister, read for send and              *)
(* is_registered) and the channel send is itself atomic, so a concurrent   *)
(* execution is an interleaving of whole calls: Spec has one action per    *)
(* call.  LockSpec takes the same calls step by step, with the lock, for   *)
(* the properties of the lock itself; FairSpec adds the receivers that     *)
(* wait for the end of their channel; BuilderSpec is MessageBuilder.       *)
(***************************************************************************)
EXTENDS Integers, Sequences, FiniteSets, TLC

\* ---- bounds -------------------------------------------------------------
\* calls of register, send and send_request in one behaviour
MaxCalls == 4
\* the same, in a behaviour that takes the calls step by step
MaxLockCalls == 3
\* the same, in a behaviour that is followed to its end
MaxFairCalls == 3

Agents == {"A", "B"}
Contents == {"x"}
NoHandle == 0
NoId == 0
NoMsg == [id |-> NoId]
Threads == {"t1", "t2"}
NoThread == "none"
None == "None"
Performatives == {"Inform", "Request"}
ConversationIds == {"c1"}

VARIABLES
    senders,   \* Router.senders: AgentId -> sending half (a channel number)
    chans,     \* the channels created by register, in creation order
    log,       \* per message id: the call that passed it to send, and its outcome
    rr,        \* the RequestReply value: its timeout field
    lock,      \* the RwLock around senders: who holds it for writing, for reading
    threads,   \* per thread: the Router call it is in and how far it has got
    builder,   \* a MessageBuilder value: its six optional fields
    built      \* what MessageBuilder::build returned

vars == <<senders, chans, log, rr, lock, threads, builder, built>>

\* what the calls below leave alone
lockVars == <<lock, threads>>
builderVars == <<builder, built>>

\* ---- values -------------------------------------------------------------
\* Message::new followed by the optional with_reply_to.
Message(id, sender, receiver, performative, content, reply) ==
    [id |-> id, sender |-> sender, receiver |-> receiver,
     performative |-> performative, content |-> content,
     conversation_id |-> "None", in_reply_to |-> reply]

\* mpsc::unbounded_channel(): both halves alive, nothing queued.  tx says
\* whether the sending half is alive and, if not, which call dropped it;
\* reg is the outcome of the register call that created the channel;
\* yielded is what the receiving half has handed to its holder so far;
\* ended says that it has handed out None, the closed indicator.
NewChannel(a) ==
    [agent |-> a, queue |-> <<>>, tx |-> "alive", rx |-> "alive",
     reg |-> "pending", yielded |-> <<>>, ended |-> FALSE]

\* RwLock::new(..): nobody holds it.
NewLock == [writer |-> NoThread, readers |-> {}]

\* A thread that is in no Router call.
Idle == [pc |-> "idle", op |-> None, agent |-> None, msg |-> NoMsg, h |-> NoHandle, res |-> None]

\* MessageBuilder::new(): every field None.
NewBuilder ==
    [sender |-> None, receiver |-> None, performative |-> None,
     content |-> None, conversation_id |-> None, in_reply_to |-> NoId]

\* build has not been called.
NotBuilt == [kind |-> None, text |-> None, msg |-> NoMsg]

\* ---- pure steps of the code ---------------------------------------------
\* senders.get(&message.receiver()).ok_or(AgentNotFound)
Lookup(s, a) == IF s[a] = NoHandle THEN "AgentNotFound" ELSE "Found"

\* A send that queues the message with sender and receiver exchanged.
ChannelSendSwaps(ch, m) ==
    IF ch.rx = "alive"
    THEN [ok |-> TRUE, ch |-> [ch EXCEPT !.queue = Append(@, [m EXCEPT !.sender = m.receiver, !.receiver = m.sender])]]
    ELSE [ok |-> FALSE, ch |-> ch]

\* A send that queues the message before it finds the receiving half gone.
ChannelSendQueuesThenFails(ch, m) ==
    [ok |-> ch.rx = "alive", ch |-> [ch EXCEPT !.queue = Append(@, m)]]

\* A send that puts the message at the front of the queue.
ChannelSendFront(ch, m) ==
    IF ch.rx = "alive"
    THEN [ok |-> TRUE, ch |-> [ch EXCEPT !.queue = <<m>> \o @]]
    ELSE [ok |-> FALSE, ch |-> ch]

\* A send that does not notice that the receiving half is gone.
ChannelSendIgnoreClosed(ch, m) ==
    [ok |-> TRUE, ch |-> [ch EXCEPT !.queue = Append(@, m)]]

\* UnboundedSender::send: fails iff the receiving half is gone; otherwise
\* the message goes to the back of the queue.
ChannelSend(ch, m) ==
    IF ch.rx = "alive"
    THEN [ok |-> TRUE, ch |-> [ch EXCEPT !.queue = Append(@, m)]]
    ELSE [ok |-> FALSE, ch |-> ch]

\* .map_err(|e| MessagingError::SendFailed(e.to_string()))
SendResult(ok) == IF ok THEN "Ok" ELSE "SendFailed"

\* A send_request that reports the outcome of its send.
SendRequestReturnsSend(sendRes) == sendRes

\* A send_request that drops the send's error instead of propagating it.
SendRequestReturnOther(sendRes) == "Other"

\* self.router.send(msg)?; Err(Other("request-reply not yet implemented"))
SendRequestReturn(sendRes) == IF sendRes = "Ok" THEN "Other" ELSE sendRes

Return(op, sendRes) ==
    IF op = "send_request" THEN SendRequestReturn(sendRes) ELSE sendRes

\* An insert that keeps the mapping it finds.
InsertSenderKeepsFirst(s, a, h) == IF s[a] = NoHandle THEN [s EXCEPT ![a] = h] ELSE s

\* senders.insert(agent_id, sender): the previous sender, if any, is dropped.
InsertSender(s, a, h) == [s EXCEPT ![a] = h]

\* Ok(receiver)
RegisterReturn(s, a) == "Ok"

\* A contains_key that also asks whether the channel is still open.
ContainsKeyOpen(s, a) == s[a] # NoHandle /\ chans[s[a]].rx = "alive"

\* s.contains_key(agent_id)
ContainsKey(s, a) == s[a] # NoHandle

\* An unregister that empties the registry.
RemoveSenderClears(s, a) == [b \in DOMAIN s |-> NoHandle]

\* An unregister that leaves the mapping in place.
RemoveSenderKeeps(s, a) == s

\* senders.remove(agent_id)
RemoveSender(s, a) == [s EXCEPT ![a] = NoHandle]

\* A removed or replaced sender that stays alive somewhere.
DropTxLeaks(cs, h, why) == cs

\* unregister: Ok(()), whether or not the key was there
UnregisterReturn(s, a) == "Ok"

\* Dropping the sending half of channel h (h = NoHandle: nothing to drop):
\* insert drops the value it replaces ("replaced"), remove the value it
\* takes out ("removed").
DropTx(cs, h, why) == IF h = NoHandle THEN cs ELSE [cs EXCEPT ![h].tx = why]

\* ---- initial state: Router::new(), RequestReply::new(router, timeout) ----
Init ==
    /\ senders = [a \in Agents |-> NoHandle]
    /\ chans = <<>>
    /\ log = <<>>
    /\ rr = [timeout |-> 1]
    /\ lock = NewLock
    /\ threads = [t \in Threads |-> Idle]
    /\ builder = NewBuilder
    /\ built = NotBuilt

\* ---- Router::register ----------------------------------------------------
\* The channel is created, its sender inserted (dropping the sender the
\* insert replaces) and its receiving half returned.
Register(a) ==
    /\ Len(chans) + Len(log) < MaxCalls
    /\ LET h == Len(chans) + 1
       IN /\ senders' = InsertSender(senders, a, h)
          /\ chans' = Append(DropTx(chans, senders[a], "replaced"),
                             [NewChannel(a) EXCEPT !.reg = RegisterReturn(senders, a)])
    /\ UNCHANGED <<log, rr, lockVars, builderVars>>

\* ---- Router::unregister --------------------------------------------------
Unregister(a) ==
    /\ senders' = RemoveSender(senders, a)
    /\ chans' = DropTx(chans, senders[a], "removed")
    /\ UNCHANGED <<log, rr, lockVars, builderVars>>

\* ---- Router::is_registered -----------------------------------------------
\* The caller gets ContainsKey(senders, a); nothing changes.
IsRegistered(a) ==
    /\ ContainsKey(senders, a) \in BOOLEAN
    /\ UNCHANGED vars

\* ---- Router::send, called directly or from RequestReply::send_request ----
Requests == {i \in 1..Len(log) : log[i].op = "send_request"}

\* What the log keeps of a call: which call it was, the receiver, the result
\* of Router::send, the value the caller got, the channel that took the
\* message and, if the Router accepted it, the message as it was passed.
Entry(op, m, sendRes, h) ==
    [op |-> op, to |-> m.receiver, send |-> sendRes, ret |-> Return(op, sendRes),
     h |-> h, msg |-> IF sendRes = "Ok" THEN m ELSE NoMsg]

\* The lookup, then the channel send, then the return.
RouterSend(op, m) ==
    /\ Len(chans) + Len(log) < MaxCalls
    /\ LET h == senders[m.receiver]
       IN IF Lookup(senders, m.receiver) = "AgentNotFound"
          THEN /\ log' = Append(log, Entry(op, m, "AgentNotFound", NoHandle))
               /\ UNCHANGED chans
          ELSE LET r == ChannelSend(chans[h], m)
               IN /\ chans' = [chans EXCEPT ![h] = r.ch]
                  /\ log' = Append(log, Entry(op, m, SendResult(r.ok), IF r.ok THEN h ELSE NoHandle))
    /\ UNCHANGED <<senders, rr, lockVars, builderVars>>

\* Router::send(message)
Send(s, r, c, rep) == RouterSend("send", Message(Len(log) + 1, s, r, "Inform", c, rep))

\* RequestReply::send_request(msg)
SendRequest(s, r, c, rep) == RouterSend("send_request", Message(Len(log) + 1, s, r, "Request", c, rep))

\* ---- the receiving half returned by register ----------------------------
\* The receiving half is in its holder's hands and not dropped.
Held(h) == h \in 1..Len(chans) /\ chans[h].rx = "alive" /\ chans[h].reg = "Ok"

\* recv()/try_recv() with a message queued: the head of the queue.
Receive(h) ==
    /\ Held(h)
    /\ chans[h].queue # <<>>
    /\ chans' = [chans EXCEPT ![h].queue = Tail(@),
                              ![h].yielded = Append(@, Head(chans[h].queue))]
    /\ UNCHANGED <<senders, log, rr, lockVars, builderVars>>

\* What recv() hands out when nothing is queued and every sender is gone:
\* None, the closed indicator.
RecvClosed(ch) == [ch EXCEPT !.ended = TRUE]

\* recv() with nothing queued: None once the sending half is gone; until
\* then the caller stays suspended (the step is not enabled).
ReceiveClosed(h) ==
    /\ Held(h)
    /\ chans[h].queue = <<>>
    /\ chans[h].tx # "alive"
    /\ chans' = [chans EXCEPT ![h] = RecvClosed(@)]
    /\ UNCHANGED <<senders, log, rr, lockVars, builderVars>>

\* The holder drops the receiving half: the channel closes and what is
\* still queued is destroyed.
DropReceiver(h) ==
    /\ Held(h)
    /\ chans' = [chans EXCEPT ![h].rx = "dropped", ![h].queue = <<>>]
    /\ UNCHANGED <<senders, log, rr, lockVars, builderVars>>

\* ---- inputs -------------------------------------------------------------
\* A reply-reference names a request sent before, if anything.
ReplyRefs == {NoId} \cup Requests

Next ==
    \/ \E a \in Agents : Register(a)
    \/ \E a \in Agents : Unregister(a)
    \/ \E a \in Agents : IsRegistered(a)
    \/ \E s \in Agents, r \in Agents, c \in Contents, rep \in ReplyRefs : Send(s, r, c, rep)
    \/ \E s \in Agents, r \in Agents, c \in Contents, rep \in ReplyRefs : SendRequest(s, r, c, rep)
    \/ \E h \in 1..Len(chans) : Receive(h)
    \/ \E h \in 1..Len(chans) : DropReceiver(h)

Spec == Init /\ [][Next]_vars

\* ---- the calls together with receivers that wait for the end --------------
\* The budget of calls in a behaviour that is followed to its end.
WithinFair == Len(chans) + Len(log) < MaxFairCalls

FairNext ==
    \/ \E a \in Agents : WithinFair /\ Register(a)
    \/ \E a \in Agents : Unregister(a)
    \/ \E a \in Agents : IsRegistered(a)
    \/ \E s \in Agents, r \in Agents, c \in Contents, rep \in ReplyRefs : WithinFair /\ Send(s, r, c, rep)
    \/ \E s \in Agents, r \in Agents, c \in Contents, rep \in ReplyRefs : WithinFair /\ SendRequest(s, r, c, rep)
    \/ \E h \in 1..Len(chans) : Receive(h)
    \/ \E h \in 1..Len(chans) : ReceiveClosed(h)
    \/ \E h \in 1..Len(chans) : DropReceiver(h)

\* The holder of a receiving half keeps calling recv(), and the runtime
\* wakes a suspended recv() when a message arrives or the channel closes.
FairSpec ==
    /\ Init
    /\ [][FairNext]_vars
    /\ \A h \in 1..MaxFairCalls : WF_vars(Receive(h) \/ ReceiveClosed(h))

\* ---- the same calls, step by step, with the RwLock ------------------------
\* RwLock::write() returns once nobody holds the lock.
CanWriteIgnoringReaders(l) == l.writer = NoThread

CanWrite(l) == l.writer = NoThread /\ l.readers = {}

\* RwLock::read() returns once no writer holds the lock.
CanRead(l) == l.writer = NoThread

\* The guard goes out of scope.
Unlock(l, t) ==
    [writer |-> IF l.writer = t THEN NoThread ELSE l.writer, readers |-> l.readers \ {t}]

\* Calls of register, send and send_request begun so far.
InFlight == {t \in Threads : threads[t].op \in {"register", "send", "send_request"}}
Begun == Len(chans) + Len(log) + Cardinality(InFlight)

\* MessageId::new(): a fresh id, here the number of the send.
SendsBegun == Len(log) + Cardinality({t \in Threads : threads[t].op \in {"send", "send_request"}})

\* register: let mut senders = self.senders.write()
RegisterLock(t, a) ==
    /\ threads[t].pc = "idle"
    /\ Begun < MaxLockCalls
    /\ CanWrite(lock)
    /\ lock' = [lock EXCEPT !.writer = t]
    /\ threads' = [threads EXCEPT ![t] = [Idle EXCEPT !.pc = "insert", !.op = "register", !.agent = a]]
    /\ UNCHANGED <<senders, chans, log, rr, builderVars>>

\* register: senders.insert(agent_id, sender); Ok(receiver)
RegisterInsert(t) ==
    /\ threads[t].pc = "insert"
    /\ LET a == threads[t].agent
           h == Len(chans) + 1
       IN /\ senders' = InsertSender(senders, a, h)
          /\ chans' = Append(DropTx(chans, senders[a], "replaced"),
                             [NewChannel(a) EXCEPT !.reg = RegisterReturn(senders, a)])
    /\ lock' = Unlock(lock, t)
    /\ threads' = [threads EXCEPT ![t] = Idle]
    /\ UNCHANGED <<log, rr, builderVars>>

\* unregister: let mut senders = self.senders.write()
UnregisterLock(t, a) ==
    /\ threads[t].pc = "idle"
    /\ CanWrite(lock)
    /\ lock' = [lock EXCEPT !.writer = t]
    /\ threads' = [threads EXCEPT ![t] = [Idle EXCEPT !.pc = "remove", !.op = "unregister", !.agent = a]]
    /\ UNCHANGED <<senders, chans, log, rr, builderVars>>

\* unregister: senders.remove(agent_id); Ok(())
UnregisterRemove(t) ==
    /\ threads[t].pc = "remove"
    /\ senders' = RemoveSender(senders, threads[t].agent)
    /\ chans' = DropTx(chans, senders[threads[t].agent], "removed")
    /\ lock' = Unlock(lock, t)
    /\ threads' = [threads EXCEPT ![t] = Idle]
    /\ UNCHANGED <<log, rr, builderVars>>

\* is_registered: self.senders.read()
IsRegisteredLock(t, a) ==
    /\ threads[t].pc = "idle"
    /\ CanRead(lock)
    /\ lock' = [lock EXCEPT !.readers = @ \cup {t}]
    /\ threads' = [threads EXCEPT ![t] = [Idle EXCEPT !.pc = "contains", !.op = "is_registered", !.agent = a]]
    /\ UNCHANGED <<senders, chans, log, rr, builderVars>>

\* is_registered: .map(|s| s.contains_key(agent_id))
IsRegisteredContains(t) ==
    /\ threads[t].pc = "contains"
    /\ ContainsKey(senders, threads[t].agent) \in BOOLEAN
    /\ lock' = Unlock(lock, t)
    /\ threads' = [threads EXCEPT ![t] = Idle]
    /\ UNCHANGED <<senders, chans, log, rr, builderVars>>

\* send: let senders = self.senders.read()
SendLock(t, op, s, r, c) ==
    /\ threads[t].pc = "idle"
    /\ Begun < MaxLockCalls
    /\ CanRead(lock)
    /\ lock' = [lock EXCEPT !.readers = @ \cup {t}]
    /\ threads' = [threads EXCEPT ![t] =
          [Idle EXCEPT !.pc = "get", !.op = op, !.agent = r,
                       !.msg = Message(SendsBegun + 1, s, r, IF op = "send" THEN "Inform" ELSE "Request", c, NoId)]]
    /\ UNCHANGED <<senders, chans, log, rr, builderVars>>

\* send: senders.get(&message.receiver()).ok_or(AgentNotFound)?  The early
\* return drops the guard.
SendGet(t) ==
    /\ threads[t].pc = "get"
    /\ IF Lookup(senders, threads[t].agent) = "AgentNotFound"
       THEN /\ log' = Append(log, Entry(threads[t].op, threads[t].msg, "AgentNotFound", NoHandle))
            /\ lock' = Unlock(lock, t)
            /\ threads' = [threads EXCEPT ![t] = Idle]
       ELSE /\ threads' = [threads EXCEPT ![t].pc = "send", ![t].h = senders[threads[t].agent]]
            /\ UNCHANGED <<log, lock>>
    /\ UNCHANGED <<senders, chans, rr, builderVars>>

\* send: sender.send(message), the tail expression of the function: the
\* guard is still alive.
SendEnqueue(t) ==
    /\ threads[t].pc = "send"
    /\ LET r == ChannelSend(chans[threads[t].h], threads[t].msg)
       IN /\ chans' = [chans EXCEPT ![threads[t].h] = r.ch]
          /\ threads' = [threads EXCEPT ![t].pc = "return", ![t].res = SendResult(r.ok)]
    /\ UNCHANGED <<senders, log, rr, lock, builderVars>>

\* send: the function returns and its locals, the guard among them, go.
SendUnlock(t) ==
    /\ threads[t].pc = "return"
    /\ log' = Append(log, Entry(threads[t].op, threads[t].msg, threads[t].res,
                                IF threads[t].res = "Ok" THEN threads[t].h ELSE NoHandle))
    /\ lock' = Unlock(lock, t)
    /\ threads' = [threads EXCEPT ![t] = Idle]
    /\ UNCHANGED <<senders, chans, rr, builderVars>>

LockNext ==
    \/ \E t \in Threads, a \in Agents : RegisterLock(t, a)
    \/ \E t \in Threads : RegisterInsert(t)
    \/ \E t \in Threads, a \in Agents : UnregisterLock(t, a)
    \/ \E t \in Threads : UnregisterRemove(t)
    \/ \E t \in Threads, a \in Agents : IsRegisteredLock(t, a)
    \/ \E t \in Threads : IsRegisteredContains(t)
    \/ \E t \in Threads, op \in {"send", "send_request"}, s \in Agents, r \in Agents, c \in Contents :
          SendLock(t, op, s, r, c)
    \/ \E t \in Threads : SendGet(t)
    \/ \E t \in Threads : SendEnqueue(t)
    \/ \E t \in Threads : SendUnlock(t)
    \/ \E h \in 1..Len(chans) : Receive(h)
    \/ \E h \in 1..Len(chans) : DropReceiver(h)

LockSpec == Init /\ [][LockNext]_vars

\* ---- MessageBuilder --------------------------------------------------------
routerVars == <<senders, chans, log, rr>>

\* Message::with_conversation_id, Message::with_reply_to
WithConversationId(m, cid) == [m EXCEPT !.conversation_id = cid]
WithReplyTo(m, id) == [m EXCEPT !.in_reply_to = id]

\* Err(MessagingError::Other(text)), Ok(msg)
BuildErr(text) == [kind |-> "Other", text |-> text, msg |-> NoMsg]
BuildOk(m) == [kind |-> "Ok", text |-> None, msg |-> m]

\* MessageBuilder::build: the arguments of Message::new are evaluated in
\* order, the first None among them returns its error; then the two
\* optional fields are applied.
BuildResult(b) ==
    IF b.sender = None THEN BuildErr("sender required")
    ELSE IF b.receiver = None THEN BuildErr("receiver required")
    ELSE IF b.performative = None THEN BuildErr("performative required")
    ELSE IF b.content = None THEN BuildErr("content required")
    ELSE LET msg == Message(NoId + 1, b.sender, b.receiver, b.performative, b.content, NoId)
             withCid == IF b.conversation_id # None
                        THEN WithConversationId(msg, b.conversation_id) ELSE msg
         IN BuildOk(IF b.in_reply_to # NoId THEN WithReplyTo(withCid, b.in_reply_to) ELSE withCid)

\* The setters take the builder by value, as build does: once build has
\* been called there is no builder left to set.
BuilderSender(a) ==
    /\ built = NotBuilt
    /\ builder' = [builder EXCEPT !.sender = a]
    /\ UNCHANGED <<built, routerVars, lockVars>>

BuilderReceiver(a) ==
    /\ built = NotBuilt
    /\ builder' = [builder EXCEPT !.receiver = a]
    /\ UNCHANGED <<built, routerVars, lockVars>>

BuilderPerformative(p) ==
    /\ built = NotBuilt
    /\ builder' = [builder EXCEPT !.performative = p]
    /\ UNCHANGED <<built, routerVars, lockVars>>

BuilderContent(c) ==
    /\ built = NotBuilt
    /\ builder' = [builder EXCEPT !.content = c]
    /\ UNCHANGED <<built, routerVars, lockVars>>

BuilderConversationId(cid) ==
    /\ built = NotBuilt
    /\ builder' = [builder EXCEPT !.conversation_id = cid]
    /\ UNCHANGED <<built, routerVars, lockVars>>

BuilderInReplyTo(id) ==
    /\ built = NotBuilt
    /\ builder' = [builder EXCEPT !.in_reply_to = id]
    /\ UNCHANGED <<built, routerVars, lockVars>>

Build ==
    /\ built = NotBuilt
    /\ built' = BuildResult(builder)
    /\ UNCHANGED <<builder, routerVars, lockVars>>

\* ids of earlier messages that a reply-reference may name
EarlierIds == {2, 3}

BuilderNext ==
    \/ \E a \in Agents : BuilderSender(a)
    \/ \E a \in Agents : BuilderReceiver(a)
    \/ \E p \in Performatives : BuilderPerformative(p)
    \/ \E c \in Contents : BuilderContent(c)
    \/ \E cid \in ConversationIds : BuilderConversationId(cid)
    \/ \E id \in EarlierIds : BuilderInReplyTo(id)
    \/ Build

BuilderSpec == Init /\ [][BuilderNext]_vars

TypeOK ==
    /\ senders \in [Agents -> 0..MaxCalls]
    /\ Len(chans) + Len(log) <= MaxCalls

\* ---- vocabulary of the properties ----------------------------------------
Handles == 1..Len(chans)
Ids == 1..Len(log)

\* Everything channel h has carried: what it yielded, then what is queued.
Full(h) == chans[h].yielded \o chans[h].queue
IdsIn(h) == {Full(h)[k].id : k \in DOMAIN Full(h)}
Occurrences(i, h) == Cardinality({k \in DOMAIN Full(h) : Full(h)[k].id = i})

\* a is registered: some register(a) has returned Ok and the sending half
\* it stored has been neither replaced nor removed since.
Registered(a) ==
    \E h \in Handles : chans[h].agent = a /\ chans[h].reg = "Ok" /\ chans[h].tx = "alive"

\* a is registered and the receiving half of its channel has been dropped.
Closed(a) ==
    \E h \in Handles : /\ chans[h].agent = a /\ chans[h].reg = "Ok"
                        /\ chans[h].tx = "alive" /\ chans[h].rx = "dropped"

\* This step is a call of Router::send (direct or through send_request);
\* Sent is the id of its message.
SendStep == Len(log') = Len(log) + 1
Sent == Len(log) + 1

\* This step is a call of Router::register; Created is its channel.
RegisterStep == Len(chans') = Len(chans) + 1
Created == Len(chans) + 1

\* The accepted messages that answer request i: addressed to the sender of
\* the request and carrying its id as their reply-reference.
Replies(i) ==
    {j \in Ids : /\ log[j].send = "Ok"
                 /\ log[j].msg.in_reply_to = i
                 /\ log[j].msg.receiver = log[i].msg.sender}

\* The requests to another agent that the Router accepted.
AcceptedRequests ==
    {i \in Requests : log[i].send = "Ok" /\ log[i].msg.sender # log[i].msg.receiver}

\* ---- C1 ------------------------------------------------------------------
C1_Step ==
    (SendStep /\ ~Registered(log'[Sent].to))
        => (log'[Sent].send = "AgentNotFound" /\ chans' = chans)

C1_NeverQueued ==
    \A i \in Ids : log[i].send = "AgentNotFound" => \A h \in Handles : i \notin IdsIn(h)

\* C1: a Router::send whose receiver is not registered (never registered,
\* or unregistered since) returns AgentNotFound and leaves every queue as
\* it was; no channel ever carries such a message.
C1_SendToUnregisteredFails == [][C1_Step]_vars /\ []C1_NeverQueued

\* A send failed with AgentNotFound for an agent that had been registered
\* (an earlier message was accepted for it) and was unregistered since, and
\* another failed for an agent that was never registered.
C1_Witness ==
    /\ \E i, j \in Ids :
          /\ j < i
          /\ log[j].send = "Ok"
          /\ log[j].to = log[i].to
          /\ chans[log[j].h].tx = "removed"
          /\ log[i].send = "AgentNotFound"
    /\ \E i \in Ids :
          /\ log[i].send = "AgentNotFound"
          /\ \A h \in Handles : chans[h].agent # log[i].to

\* ---- C2 ------------------------------------------------------------------
\* C2: a register(A) that finds A registered fails with
\* RegistrationConflict and leaves the mapping and its channel in place.
C2_RegisterTwiceConflicts ==
    [][(RegisterStep /\ Registered(chans'[Created].agent))
          => /\ chans'[Created].reg = "RegistrationConflict"
             /\ senders' = senders
             /\ chans'[senders[chans'[Created].agent]].tx = "alive"]_vars

\* ---- C3 ------------------------------------------------------------------
AcceptedFor(a) == {i \in Ids : log[i].send = "Ok" /\ log[i].to = a}
HandlesOf(a) == {h \in Handles : chans[h].agent = a /\ chans[h].reg = "Ok"}

\* a was never unregistered and none of its receiving halves was dropped.
Undisturbed(a) ==
    \A h \in HandlesOf(a) : chans[h].tx # "removed" /\ chans[h].rx = "alive"

\* C3: for an agent that is never unregistered (and keeps its receiving
\* half), there is one inbound handle that carries every message accepted
\* for the agent exactly once, whatever register calls were interleaved.
C3_AcceptedReachTheHandle ==
    \A a \in Agents :
        Undisturbed(a) =>
            \E h \in HandlesOf(a) \cup {NoHandle} :
                \A i \in AcceptedFor(a) : h # NoHandle /\ Occurrences(i, h) = 1

\* ---- C4 ------------------------------------------------------------------
\* C4: on every inbound handle, the messages of one sender are carried
\* (yielded, then queued) in the order in which that sender's sends
\* returned, whatever other senders' sends were interleaved.
C4_SenderOrder ==
    \A h \in Handles : \A k, l \in DOMAIN Full(h) :
        (k < l /\ Full(h)[k].sender = Full(h)[l].sender) => Full(h)[k].id < Full(h)[l].id

\* A handle has yielded two messages of one sender.
C4_Witness ==
    \E h \in Handles : \E k, l \in DOMAIN chans[h].yielded :
        k < l /\ chans[h].yielded[k].sender = chans[h].yielded[l].sender

\* ---- C5 ------------------------------------------------------------------
\* C5: a send_request that the Router accepted and that nobody answered
\* has its caller suspended, or has failed with Timeout.
C5_TimeoutWithoutReply ==
    \A i \in AcceptedRequests :
        Replies(i) = {} => log[i].ret \in {"Suspended", "Timeout"}

\* ---- C6 ------------------------------------------------------------------
\* C6: a send_request that was answered resolves with Ok (the first reply),
\* unless the reply came after the deadline (Timeout) or the caller is
\* still suspended.
C6_FirstReplyResolves ==
    \A i \in AcceptedRequests :
        Replies(i) # {} => log[i].ret \in {"Suspended", "Ok", "Timeout"}

\* ---- C7 ------------------------------------------------------------------
\* C7: when the send inside send_request fails, send_request has returned
\* that same failure to its caller.
C7_SendFailurePropagates ==
    \A i \in Requests :
        log[i].send \in {"AgentNotFound", "SendFailed"} => log[i].ret = log[i].send

\* A send_request failed on an unregistered receiver and another on a
\* closed mailbox.
C7_Witness ==
    /\ \E i \in Requests : log[i].ret = "SendFailed"
    /\ \E i \in Requests : log[i].ret = "AgentNotFound"

\* ---- C8 ------------------------------------------------------------------
\* C8: a request is on its way (Created, Sent) or has reached one of the
\* outcomes Fulfilled, TimedOut, SendFailed and Cancelled.
C8_TerminalOutcomes ==
    \A i \in Requests :
        log[i].ret \in {"Suspended", "Ok", "Timeout", "AgentNotFound", "SendFailed", "Cancelled"}

\* ---- C9 ------------------------------------------------------------------
\* C9: the first reply to an accepted request is consumed by the request's
\* waiter: it is not carried by any channel as ordinary inbound traffic.
C9_ReplyConsumedByWaiter ==
    \A i \in AcceptedRequests : \A j \in Replies(i) :
        (\A k \in Replies(i) : j <= k) => \A h \in Handles : j \notin IdsIn(h)

\* ---- C10 -----------------------------------------------------------------
C10_Step ==
    (SendStep /\ Closed(log'[Sent].to))
        => (log'[Sent].send = "SendFailed" /\ chans' = chans)

C10_NeverQueued ==
    \A i \in Ids : log[i].send = "SendFailed" => \A h \in Handles : i \notin IdsIn(h)

\* C10: a Router::send to an agent that is registered but whose receiving
\* half has been dropped returns SendFailed, and the message is not queued.
C10_SendToClosedMailboxFails == [][C10_Step]_vars /\ []C10_NeverQueued

\* A send failed with SendFailed while its receiver is still registered.
C10_Witness ==
    \E i \in Ids : log[i].send = "SendFailed" /\ Closed(log[i].to)

\* ---- C11 -----------------------------------------------------------------
\* The threads inside a critical section of the registry lock, by the place
\* they have reached in their call.
Writers == {t \in Threads : threads[t].pc \in {"insert", "remove"}}
Readers == {t \in Threads : threads[t].pc \in {"contains", "get", "send", "return"}}

\* C11: the step of Router::send that enqueues the message is taken by a
\* thread that has already released the read lock.
C11_ReleasedBeforeEnqueue ==
    [][\A t \in Threads :
          (threads[t].pc = "send" /\ threads'[t].pc = "return") => t \notin lock.readers]_vars

\* ---- C12 -----------------------------------------------------------------
\* C12: at most one thread is in a writer's critical section (register,
\* unregister), and then no thread is in a reader's (send, is_registered).
C12_WritersExclude ==
    /\ Cardinality(Writers) <= 1
    /\ Writers # {} => Readers = {}

\* Two readers are in their critical sections at once, one of them about
\* to enqueue on a channel that a writer has put into the registry.
C12_Witness ==
    /\ Cardinality(Readers) = 2
    /\ \E t \in Readers : threads[t].pc = "send" /\ threads[t].h \in 1..Len(chans)
    /\ lock.readers = Readers

\* ---- C13 -----------------------------------------------------------------
\* h was the channel of its agent when the agent was unregistered: it is
\* the last channel created for the agent, and the agent has no mapping.
Unregistered(h) ==
    /\ h \in Handles
    /\ chans[h].reg = "Ok"
    /\ senders[chans[h].agent] = NoHandle
    /\ \A g \in Handles : chans[g].agent = chans[h].agent => g <= h

\* The closed indicator comes after every message the channel took.
C13_DrainedFirst ==
    \A h \in Handles :
        chans[h].ended =>
            /\ chans[h].queue = <<>>
            /\ \A i \in Ids : log[i].h = h => \E k \in DOMAIN chans[h].yielded : chans[h].yielded[k].id = i

\* C13: once A is unregistered, the holder of A's inbound handle gets the
\* closed indicator (unless it drops the handle), and gets it only after
\* all the messages the channel had taken.
C13_ClosedAfterUnregister ==
    /\ []C13_DrainedFirst
    /\ \A h \in 1..MaxFairCalls :
          Unregistered(h) ~> (h \in Handles /\ (chans[h].ended \/ chans[h].rx = "dropped"))

\* A handle has yielded a message and then the closed indicator after its
\* agent was unregistered.
C13_Witness ==
    \E h \in Handles : Unregistered(h) /\ chans[h].ended /\ chans[h].yielded # <<>>

\* ---- C14 -----------------------------------------------------------------
C14_Step(a) ==
    Unregister(a) =>
        /\ UnregisterReturn(senders, a) = "Ok"
        /\ ~ContainsKey(senders, a) => (senders' = senders /\ chans' = chans)
        /\ RemoveSender(senders', a) = senders'
        /\ DropTx(chans', senders'[a], "removed") = chans'

\* C14: unregister(A) returns Ok; when A is not registered it leaves the
\* registry and the channels as they were; and after any unregister(A) a
\* second one would change nothing.
C14_UnregisterIdempotent == [][\A a \in Agents : C14_Step(a)]_vars

\* An agent has been unregistered (so a further unregister finds no
\* mapping) while another agent is registered.
C14_Witness ==
    \E a, b \in Agents :
        /\ ~ContainsKey(senders, a)
        /\ \E h \in Handles : chans[h].agent = a /\ chans[h].tx = "removed"
        /\ ContainsKey(senders, b)

\* ---- C15 -----------------------------------------------------------------
\* C15: every message an inbound handle has yielded is, field for field,
\* a message that Router::send accepted, and the handle is one of the
\* message's receiver.
C15_DeliveredAsSent ==
    \A h \in Handles : \A k \in DOMAIN chans[h].yielded :
        LET m == chans[h].yielded[k]
        IN /\ m.id \in Ids
           /\ log[m.id].send = "Ok"
           /\ m = log[m.id].msg
           /\ chans[h].reg = "Ok"
           /\ chans[h].agent = m.receiver

\* A handle has yielded a message from another agent that carries a
\* reply-reference.
C15_Witness ==
    \E h \in Handles : \E k \in DOMAIN chans[h].yielded :
        /\ chans[h].yielded[k].sender # chans[h].agent
        /\ chans[h].yielded[k].in_reply_to # NoId

\* ---- C17 -----------------------------------------------------------------
\* An accepted message goes to the back of the queue of the channel that
\* the latest register of its receiver created, a channel not superseded.
C17_Accept ==
    (SendStep /\ log'[Sent].send = "Ok") =>
        LET a == log'[Sent].to
            h == log'[Sent].h
        IN /\ h \in HandlesOf(a)
           /\ \A g \in HandlesOf(a) : g <= h
           /\ chans[h].tx = "alive"
           /\ chans'[h].queue = Append(chans[h].queue, log'[Sent].msg)

\* A superseded channel takes nothing more.
C17_Superseded ==
    \A h \in Handles : chans[h].tx # "alive" => IdsIn(h)' \subseteq IdsIn(h)

\* A message is carried by the channel that took it, once, and by no other.
C17_OneHandle ==
    \A i \in Ids : \A h \in Handles :
        i \in IdsIn(h) => (h = log[i].h /\ Occurrences(i, h) = 1)

\* C17: a message accepted for A is carried only by the handle of the
\* latest register(A) at the time; a handle superseded by a register(A) or
\* an unregister(A) carries nothing accepted later; no message is carried
\* by two handles.
C17_OnlyTheLatestHandle == [][C17_Accept /\ C17_Superseded]_vars /\ []C17_OneHandle

\* Two handles of one agent, the earlier one superseded, have each yielded
\* a message.
C17_Witness ==
    \E g, h \in Handles :
        /\ g < h /\ chans[g].agent = chans[h].agent
        /\ chans[g].tx # "alive"
        /\ chans[g].yielded # <<>> /\ chans[h].yielded # <<>>

\* ---- C18 -----------------------------------------------------------------
C18_Mapped == \A a \in Agents : ContainsKey(senders, a) <=> Registered(a)

C18_Step ==
    /\ SendStep => (log'[Sent].send = "AgentNotFound" <=> ~ContainsKey(senders, log'[Sent].to))
    /\ \A a \in Agents : IsRegistered(a) => (senders' = senders /\ chans' = chans)

\* C18: is_registered(A) holds exactly when a register(A) has returned and
\* no unregister(A) since, whatever became of the receiving half; a send
\* to A fails with AgentNotFound exactly when it does not hold; and
\* is_registered changes neither the registry nor a channel.
C18_IsRegistered == []C18_Mapped /\ [][C18_Step]_vars

\* One agent is registered although its receiving half is dropped, the
\* other is not registered after it had been, and a send has failed with
\* AgentNotFound.
C18_Witness ==
    /\ \E a \in Agents : ContainsKey(senders, a) /\ Closed(a)
    /\ \E h \in Handles : chans[h].tx = "removed" /\ ~ContainsKey(senders, chans[h].agent)
    /\ \E i \in Ids : log[i].send = "AgentNotFound"

\* ---- C19 -----------------------------------------------------------------
C19_Frame ==
    (SendStep /\ log'[Sent].send \in {"AgentNotFound", "SendFailed"})
        => (senders' = senders /\ chans' = chans)

\* While the mapping of a closed mailbox stays, the mailbox stays closed
\* and a send to it fails with SendFailed.
C19_StaysClosed ==
    \A a \in Agents :
        (Closed(a) /\ senders'[a] = senders[a]) =>
            /\ Closed(a)'
            /\ (SendStep /\ log'[Sent].to = a) => log'[Sent].send = "SendFailed"

\* C19: a send that fails leaves the registry and every queue as they
\* were; the mapping of a closed mailbox stays until an unregister or a
\* register changes it, and until then sends to it fail with SendFailed.
C19_FailedSendChangesNothing == [][C19_Frame /\ C19_StaysClosed]_vars

\* Two sends to one agent have failed with SendFailed, one after the other,
\* and the agent is still mapped to the closed mailbox.
C19_Witness ==
    \E i, j \in Ids :
        /\ i < j /\ log[i].to = log[j].to
        /\ log[i].send = "SendFailed" /\ log[j].send = "SendFailed"
        /\ Closed(log[i].to)

\* ---- C20 -----------------------------------------------------------------
\* A send_request whose receiver is registered with a live receiving half
\* queues the request once and returns Other.
C20_Step ==
    (/\ SendStep
     /\ log'[Sent].op = "send_request"
     /\ ContainsKey(senders, log'[Sent].to)
     /\ chans[senders[log'[Sent].to]].rx = "alive") =>
        LET h == senders[log'[Sent].to]
        IN /\ log'[Sent].send = "Ok"
           /\ log'[Sent].ret = "Other"
           /\ chans'[h].queue = Append(chans[h].queue, log'[Sent].msg)
           /\ \A g \in Handles \ {h} : chans'[g] = chans[g]

\* What a call has returned does not change afterwards.
C20_Settled == \A i \in Ids : log'[i] = log[i]

C20_NeverOk ==
    \A i \in Requests : log[i].ret # "Ok" /\ \A h \in Handles : Occurrences(i, h) <= 1

Required == <<"sender", "receiver", "performative", "content">>
Missing(b) == {k \in 1..Len(Required) : b[Required[k]] = None}
FirstMissing(b) == Required[CHOOSE k \in Missing(b) : \A l \in Missing(b) : k <= l]

\* C16: build with a required field unset has returned a ValidationError
\* that names the first field missing, and no Message; with the four
\* required fields set it has returned a Message that carries the fields
\* of the builder, the optional ones as set or absent.
C16_BuildValidates ==
    built # NotBuilt =>
        IF Missing(builder) # {}
        THEN /\ built.kind = "ValidationError"
             /\ built.text = FirstMissing(builder)
             /\ built.msg = NoMsg
        ELSE /\ built.kind = "Ok"
             /\ \A f \in DOMAIN builder : built.msg[f] = builder[f]
====
